---- MODULE Spec2Model ----
(***************************************************************************)
(* NetPick: the in-memory pool cache (NetPickCache), its timer-driven      *)
(* refresh scheduler, and the random pickers that draw from it.            *)
(*                                                                         *)
(* JavaScript runs one macrotask at a time: a handler runs to its next     *)
(* await on a pending promise and only there can other work interleave.    *)
(* The only pending promises are upstream requests (fetch), so every       *)
(* action below is one such run-to-suspension segment.                     *)
(***************************************************************************)
EXTENDS Integers, Sequences, FiniteSets, Bags, TLC

(***************************************************************************)
(* Bounds and scaled configuration.                                        *)
(***************************************************************************)
\* config.poolSize (CACHE_POOL_SIZE, default 200): the configuration modelled
PoolSize == 2
\* config.minPoolSize (CACHE_MIN_POOL_SIZE, default 50): the configuration modelled
MinPoolSize == 2
\* config.ttlHours (CACHE_TTL_HOURS, default 6), in clock ticks
TtlTicks == 1
\* config.refreshIntervalMs (6 hours, the default TTL), in clock ticks
RefreshTicks == 1
\* maxAttempts of refreshPool (10 in the source), scaled down
MaxAttempts == 2
\* maxRecentPicks (10 in randomPicker.ts, 20 in the cache-backed picker), scaled down
MaxRecentPicks == 2
\* cleanupOldPicks: the map size that triggers pruning (100 / 1000), scaled down
MaxPickUsers == 2
\* cleanupOldPicks: the number of entries pruning keeps (50 / 500), scaled down
KeepPickUsers == 1
\* the count the cache-backed picker asks getRandomShows for: 20 for one type,
\* 10 for each of movie and series otherwise; scaled down
TypedSampleCount == 2
AnySampleCount == 1
\* step of the grid the random draw of the weighted selection is taken from
DrawStep == 10
\* number of successful discover calls the model lets happen
MaxTotalPicks == 3
\* longest candidate list handed to weightedRandomSelection on its own
MaxCandidates == 3
\* number of clock ticks the model lets pass
MaxTicks == 3
\* number of counted getRandomShow calls the model lets happen between resets
MaxReads == 2

\* Date.now() at construction, in ticks: far past the zero timestamp of the
\* pools initializePools creates, so those are expired from the start.
Epoch == TtlTicks + 1

None == "none"

\* The null that getRandomShow and selectRandomShow return when they have no
\* show; show ids start at 1.
NoShow == 0

(***************************************************************************)
(* Titles. A title is identified by its id; Catalog gives the record the   *)
(* upstream fetcher normalises it to (transformShow): the four fields the  *)
(* validity filter reads, as "is present / non-empty", and the rating.     *)
(***************************************************************************)
Catalog ==
  << [title |-> TRUE,  overview |-> TRUE,  netflixLink |-> TRUE,  poster |-> TRUE,  rating |-> 80],
     [title |-> TRUE,  overview |-> TRUE,  netflixLink |-> TRUE,  poster |-> TRUE,  rating |-> 40],
     [title |-> TRUE,  overview |-> TRUE,  netflixLink |-> TRUE,  poster |-> TRUE,  rating |-> 0],
     [title |-> TRUE,  overview |-> TRUE,  netflixLink |-> FALSE, poster |-> TRUE,  rating |-> 60],
     [title |-> TRUE,  overview |-> TRUE,  netflixLink |-> TRUE,  poster |-> TRUE,  rating |-> 60],
     [title |-> TRUE,  overview |-> TRUE,  netflixLink |-> TRUE,  poster |-> TRUE,  rating |-> 90],
     [title |-> TRUE,  overview |-> TRUE,  netflixLink |-> TRUE,  poster |-> TRUE,  rating |-> 10] >>

ShowIds == DOMAIN Catalog

Countries == {"us"}
Users == {"u1", "u2", "u3"}
Clients == {"ip1", "ip2"}
ShowTypes == {"movie", "series"}

\* getPoolKey: `${country}-${showType || "any"}`
getPoolKey(country, showType) ==
  <<country, IF showType = None THEN "any" ELSE showType>>

Keys == {getPoolKey(c, t) : c \in Countries, t \in ShowTypes \cup {None}}

\* The order Object.keys(SUPPORTED_COUNTRIES) x ["movie","series"] is walked in.
ScheduledKeys == << getPoolKey("us", "movie"), getPoolKey("us", "series") >>

NoPool == [absent |-> TRUE]

VARIABLES
  pools,        \* this.pools: key -> CachePool, NoPool when the map has no entry
  metadata,     \* this.metadata: totalShows, poolSizes, hitCount, missCount
  refreshJobs,  \* this.refreshJobs: keys with a registered interval
  destroyed,    \* history: destroy() has been called
  due,          \* per key, when its registered interval fires next (0: no interval)
  isRefreshing, \* this.isRefreshing
  initQueue,    \* the setTimeout callbacks of startBackgroundJobs not yet run, by delay
  calls,        \* refreshPool invocations suspended on an upstream request (a bag)
  now,          \* Date.now(), in ticks
  recentPicks,  \* picker: this.recentPicks, a Map in insertion order: <<[userId, picks], ...>>
  stats,        \* picker: this.stats (totalPicks)
  dcalls,       \* direct picker: discover invocations suspended on an upstream request
  picked,       \* history: per user, every pick trackUserPick recorded, oldest first
  resetAt,      \* history: per user, how many of those were recorded before the user's
                \* entry was last removed from recentPicks
  requestCounts, \* route: requestCounts, per client key its count and resetTime
  windows,      \* history: per client key, the resetTime of the window its last
                \* request fell in and how many requests were accepted in it
  reads,        \* history: the getRandomShow calls since construction or the last
                \* clearCache, and how many of them returned a title
  suggesting,   \* picker: the getMultipleSuggestions call under way, if any
  ret           \* history: what the last operation did and returned

cacheVars == <<pools, metadata, refreshJobs, due, isRefreshing, initQueue, calls, reads,
              destroyed>>
pickerVars == <<recentPicks, stats, dcalls, picked, resetAt>>
routeVars == <<requestCounts, windows>>
vars == <<pools, metadata, refreshJobs, due, isRefreshing, initQueue, calls, now,
          recentPicks, stats, dcalls, picked, resetAt, requestCounts, windows, suggesting, reads, destroyed, ret>>

(***************************************************************************)
(* Helpers.                                                                *)
(***************************************************************************)
Min(a, b) == IF a < b THEN a ELSE b

Take(s, n) == SubSeq(s, 1, Min(n, Len(s)))

RECURSIVE SumLens(_, _)
SumLens(ps, ks) ==
  IF ks = {} THEN 0
  ELSE LET k == CHOOSE x \in ks : TRUE
       IN (IF ps[k] = NoPool THEN 0 ELSE Len(ps[k].shows)) + SumLens(ps, ks \ {k})

SeqsUpTo(S, n) == UNION {[1..m -> S] : m \in 0..n}

\* What the upstream can answer to one page request, with titles among ids: a
\* page of up to poolSize records, which overshoots a pool that is partly filled.
PagesOver(ids) == [shows : SeqsUpTo(ids, PoolSize), hasMore : BOOLEAN, nextCursor : BOOLEAN]

\* refreshPool's filter: netflixLink && title && overview && poster w480
IsValidShow(id) ==
  /\ Catalog[id].netflixLink
  /\ Catalog[id].title
  /\ Catalog[id].overview
  /\ Catalog[id].poster

\* Mutant: the page is taken as it comes.
validShowsUnfiltered(s) == s

validShows(s) == SelectSeq(s, IsValidShow)

\* isPoolExpired: Date.now() - pool.lastUpdate > ttlMs
isPoolExpired(pool) == now - pool.lastUpdate > TtlTicks

Event(op, key, res) == [op |-> op, key |-> key, res |-> res]

(***************************************************************************)
(* refreshPool.                                                            *)
(***************************************************************************)
\* Mutant: no attempt ceiling.
LoopCondNoCeiling(shows, attempts) == Len(shows) < PoolSize

\* The while condition: shows.length < poolSize && attempts < maxAttempts
LoopCond(shows, attempts) == Len(shows) < PoolSize /\ attempts < MaxAttempts

\* Mutant: the collected list is stored without slice(0, poolSize).
NewPoolShowsNoSlice(shows, old) == shows

\* Mutant: the collected titles are appended to the pool's current ones.
NewPoolShowsMerged(shows, old) ==
  Take((IF old = NoPool THEN <<>> ELSE old.shows) \o shows, PoolSize)

\* shows.slice(0, poolSize): the list the new pool gets (old: the current entry).
NewPoolShows(shows, old) == Take(shows, PoolSize)

\* this.pools.set and the two metadata assignments of "Update pool".
WritePool(key, shows, ps, md) ==
  LET pool == [shows |-> NewPoolShows(shows, ps[key]), lastUpdate |-> now]
      nps  == [ps EXCEPT ![key] = pool]
  IN /\ pools' = nps
     /\ metadata' =
          [md EXCEPT !.poolSizes =
                       [k \in DOMAIN md.poolSizes \cup {key} |->
                          IF k = key THEN Len(pool.shows) ELSE md.poolSizes[k]],
                     !.totalShows = SumLens(nps, Keys)]

\* Mutant: the marker is cleared only when the pool was replaced.
FinishRefreshKeepFlag(key, shows, ps, md, rf) ==
  IF Len(shows) > 0
  THEN WritePool(key, shows, ps, md) /\ isRefreshing' = rf \ {key}
  ELSE pools' = ps /\ metadata' = md /\ isRefreshing' = rf

\* Mutant: the pool is written whatever was collected.
FinishRefreshAlwaysWrite(key, shows, ps, md, rf) ==
  /\ WritePool(key, shows, ps, md)
  /\ isRefreshing' = rf \ {key}

\* The part after the loop: "Update pool" and the finally block.
\* ps, md, rf are the pools, metadata and in-flight set it starts from.
FinishRefresh(key, shows, ps, md, rf) ==
  /\ IF Len(shows) > 0
     THEN WritePool(key, shows, ps, md)
     ELSE /\ pools' = ps
          /\ metadata' = md
  /\ isRefreshing' = rf \ {key}

\* Mutant: one marker for all the pools.
StartRefreshGlobalLock(key, md) ==
  IF isRefreshing # {}
  THEN /\ UNCHANGED <<pools, isRefreshing, calls>>
       /\ metadata' = md
  ELSE /\ isRefreshing' = isRefreshing \cup {key}
       /\ calls' = calls (+) SetToBag({[key |-> key, shows |-> <<>>, attempts |-> 0]})
       /\ pools' = pools
       /\ metadata' = md

\* Mutant: no "already refreshing" test.
StartRefreshNoGuard(key, md) ==
  /\ isRefreshing' = isRefreshing \cup {key}
  /\ calls' = calls (+) SetToBag({[key |-> key, shows |-> <<>>, attempts |-> 0]})
  /\ pools' = pools
  /\ metadata' = md

\* refreshPool from its first line to its first suspension (or to its end).
\* md is the metadata it starts from (the caller may have counted a miss).
StartRefresh(key, md) ==
  IF key \in isRefreshing
  THEN /\ UNCHANGED <<pools, isRefreshing, calls>>
       /\ metadata' = md
  ELSE IF LoopCond(<<>>, 0)
       THEN /\ isRefreshing' = isRefreshing \cup {key}
            /\ calls' = calls (+) SetToBag({[key |-> key, shows |-> <<>>, attempts |-> 0]})
            /\ pools' = pools
            /\ metadata' = md
       ELSE /\ FinishRefresh(key, <<>>, pools, md, isRefreshing \cup {key})
            /\ calls' = calls

\* A direct call of the public method.
RefreshPool(key) ==
  /\ StartRefresh(key, metadata)
  /\ ret' = Event("refreshPool", key, IF key \in isRefreshing THEN "skipped" ELSE "started")
  /\ UNCHANGED <<refreshJobs, due, initQueue, now>>
  /\ UNCHANGED <<pickerVars, routeVars, suggesting, reads, destroyed>>

\* The upstream answers the pending request of one invocation with a page.
PageArrives(call, page) ==
  /\ BagIn(call, calls)
  /\ LET rest   == calls (-) SetToBag({call})
         shows  == call.shows \o validShows(page.shows)
         isLast == \/ Len(page.shows) = 0
                   \/ ~page.hasMore
                   \/ ~page.nextCursor
                   \/ ~LoopCond(shows, call.attempts + 1)
     IN IF isLast
        THEN LET got == IF Len(page.shows) = 0 THEN call.shows ELSE shows
             IN /\ FinishRefresh(call.key, got, pools, metadata, isRefreshing)
                /\ calls' = rest
                /\ ret' = Event("refreshDone", call.key, got)
        ELSE /\ calls' = rest (+) SetToBag({[call EXCEPT !.shows = shows,
                                                         !.attempts = @ + 1]})
             /\ ret' = Event("page", call.key, None)
             /\ UNCHANGED <<pools, metadata, isRefreshing>>
  /\ UNCHANGED <<refreshJobs, due, initQueue, now>>
  /\ UNCHANGED <<pickerVars, routeVars, suggesting, reads, destroyed>>

\* Mutant: an error discards what the earlier pages brought.
PageFailsDiscards(call) ==
  /\ BagIn(call, calls)
  /\ FinishRefresh(call.key, <<>>, pools, metadata, isRefreshing)
  /\ calls' = calls (-) SetToBag({call})
  /\ ret' = Event("refreshFailed", call.key, call.shows)
  /\ UNCHANGED <<refreshJobs, due, initQueue, now>>
  /\ UNCHANGED <<pickerVars, routeVars, suggesting, reads, destroyed>>

\* The pending request of one invocation fails (network error, non-2xx).
PageFails(call) ==
  /\ BagIn(call, calls)
  /\ FinishRefresh(call.key, call.shows, pools, metadata, isRefreshing)
  /\ calls' = calls (-) SetToBag({call})
  /\ ret' = Event("refreshFailed", call.key, call.shows)
  /\ UNCHANGED <<refreshJobs, due, initQueue, now>>
  /\ UNCHANGED <<pickerVars, routeVars, suggesting, reads, destroyed>>

(***************************************************************************)
(* Reads.                                                                  *)
(***************************************************************************)
\* The first test of both reads: !pool || isPoolExpired(pool) || no shows
PoolUnusable(key) ==
  \/ pools[key] = NoPool
  \/ isPoolExpired(pools[key])
  \/ Len(pools[key].shows) = 0

\* Mutant: a hit counts as a miss as well.
recordCacheHitAndMiss(md) == [md EXCEPT !.hitCount = @ + 1, !.missCount = @ + 1]

recordCacheHit(md) == [md EXCEPT !.hitCount = @ + 1]

recordCacheMiss(md) == [md EXCEPT !.missCount = @ + 1]

\* getRandomShow(country, showType?); i is the random index drawn.
GetRandomShow(country, showType, i) ==
  LET key == getPoolKey(country, showType)
  IN /\ metadata.hitCount + metadata.missCount < MaxReads
     /\ IF PoolUnusable(key)
        THEN /\ i = 1
             /\ StartRefresh(key, recordCacheMiss(metadata))
             /\ ret' = Event("getRandomShow", key, NoShow)
        ELSE /\ i \in 1..Len(pools[key].shows)
             /\ IF Len(pools[key].shows) < MinPoolSize
                THEN StartRefresh(key, recordCacheHit(metadata))
                ELSE /\ metadata' = recordCacheHit(metadata)
                     /\ UNCHANGED <<pools, isRefreshing, calls>>
             /\ ret' = Event("getRandomShow", key, pools[key].shows[i])
     /\ reads' = [calls |-> reads.calls + 1,
                   titles |-> reads.titles + IF ret'.res = NoShow THEN 0 ELSE 1]
     /\ UNCHANGED <<refreshJobs, due, initQueue, now>>
     /\ UNCHANGED <<pickerVars, routeVars, suggesting, destroyed>>

\* Injective maps 1..n -> 1..n: the orders a shuffle can produce.
Perms(n) == {p \in [1..n -> 1..n] : \A i, j \in 1..n : p[i] = p[j] => i = j}

\* [...shows].sort(() => Math.random() - 0.5): any reordering of the list.
Shuffles(s) == {[i \in 1..Len(s) |-> s[p[i]]] : p \in Perms(Len(s))}

\* What getRandomShows(country, count, showType) can return.
RandomShows(country, count, showType) ==
  LET key == getPoolKey(country, showType)
  IN IF PoolUnusable(key)
     THEN {<<>>}
     ELSE {Take(sh, count) : sh \in Shuffles(pools[key].shows)}

\* getRandomShows(country, count, showType?)
GetRandomShows(country, count, showType) ==
  /\ \E r \in RandomShows(country, count, showType) :
       ret' = Event("getRandomShows", getPoolKey(country, showType), r)
  /\ UNCHANGED <<pools, metadata, refreshJobs, due, isRefreshing, initQueue, calls, now>>
  /\ UNCHANGED <<pickerVars, routeVars, suggesting, reads, destroyed>>

(***************************************************************************)
(* Maintenance and timers.                                                 *)
(***************************************************************************)
\* clearCache()
ClearCache ==
  /\ pools' = [k \in Keys |-> NoPool]
  /\ metadata' = [totalShows |-> 0, poolSizes |-> <<>>, hitCount |-> 0, missCount |-> 0]
  /\ ret' = Event("clearCache", None, None)
  /\ reads' = [calls |-> 0, titles |-> 0]
  /\ UNCHANGED <<refreshJobs, due, isRefreshing, initQueue, calls, now>>
  /\ UNCHANGED <<pickerVars, routeVars, suggesting, destroyed>>

\* destroy(): clearInterval for every registered job, then clear both maps.
Destroy ==
  /\ refreshJobs' = {}
  /\ due' = [k \in Keys |-> 0]
  /\ pools' = [k \in Keys |-> NoPool]
  /\ destroyed' = TRUE
  /\ ret' = Event("destroy", None, None)
  /\ UNCHANGED <<metadata, isRefreshing, initQueue, calls, now>>
  /\ UNCHANGED <<pickerVars, routeVars, suggesting, reads>>

\* The setTimeout callback of startBackgroundJobs with the smallest delay left:
\* the initial refreshPool, then setInterval and refreshJobs.set.
InitialTimeout ==
  /\ initQueue # <<>>
  /\ StartRefresh(Head(initQueue), metadata)
  /\ refreshJobs' = refreshJobs \cup {Head(initQueue)}
  /\ due' = [due EXCEPT ![Head(initQueue)] = now + RefreshTicks]
  /\ initQueue' = Tail(initQueue)
  /\ ret' = Event("initialTimeout", Head(initQueue), None)
  /\ now' = now
  /\ UNCHANGED <<pickerVars, routeVars, suggesting, reads, destroyed>>

\* One tick of a registered interval, when it is due.
IntervalTick(key) ==
  /\ key \in refreshJobs
  /\ due[key] <= now
  /\ StartRefresh(key, metadata)
  /\ due' = [due EXCEPT ![key] = now + RefreshTicks]
  /\ ret' = Event("intervalTick", key, None)
  /\ UNCHANGED <<refreshJobs, initQueue, now>>
  /\ UNCHANGED <<pickerVars, routeVars, suggesting, reads, destroyed>>

\* No timer is due: every initial timeout has fired (their delays are far below
\* one tick) and every registered interval fires later than now.
NoTimerDue ==
  /\ initQueue = <<>>
  /\ \A k \in refreshJobs : due[k] > now

\* Wall-clock time passes.
Tick ==
  /\ now < Epoch + MaxTicks
  /\ now' = now + 1
  /\ ret' = Event("tick", None, None)
  /\ UNCHANGED cacheVars
  /\ UNCHANGED <<pickerVars, routeVars, suggesting>>

(***************************************************************************)
(* The picker (RandomPickerService).                                       *)
(***************************************************************************)
\* The quality filter of selectRandomShow.
QualityOk(id) ==
  /\ Catalog[id].title
  /\ Catalog[id].overview
  /\ Catalog[id].netflixLink
  /\ Catalog[id].poster
  /\ Catalog[id].rating > 0

HasEntry(rp, userId) == \E i \in DOMAIN rp : rp[i].userId = userId

\* The history the map rp holds for userId: rp.get(userId) || []
PicksIn(rp, userId) ==
  IF HasEntry(rp, userId)
  THEN rp[CHOOSE i \in DOMAIN rp : rp[i].userId = userId].picks
  ELSE <<>>

\* getUserRecentPicks: this.recentPicks.get(userId) || []
getUserRecentPicks(userId) == PicksIn(recentPicks, userId)

SeqToSet(s) == {s[i] : i \in DOMAIN s}

\* config.excludeRecent ("true", "false", or None when the caller leaves it
\* out) with its default: { excludeRecent = true } = config
ExcludeRecent(config) ==
  IF config.excludeRecent = None THEN TRUE ELSE config.excludeRecent = "true"

\* Mutant: no quality filter.
FilterCandidatesNoQuality(candidates, config, userId) ==
  LET recentIds == SeqToSet(getUserRecentPicks(userId))
      rated(id)  == config.minRating # 0 => Catalog[id].rating >= config.minRating
      fresh(id)  == (ExcludeRecent(config) /\ userId # None) => id \notin recentIds
      keep(id)   == rated(id) /\ fresh(id)
  IN SelectSeq(candidates, keep)

\* config.minRating is a number, 0 when the caller leaves it out: the code
\* tests it for truthiness, so 0 and undefined are not told apart.
\* The three filters of selectRandomShow, in order: minRating (when truthy),
\* the user's recent picks (when excludeRecent and a user id), quality.
FilterCandidates(candidates, config, userId) ==
  LET recentIds == SeqToSet(getUserRecentPicks(userId))
      rated(id)  == config.minRating # 0 => Catalog[id].rating >= config.minRating
      fresh(id)  == (ExcludeRecent(config) /\ userId # None) => id \notin recentIds
      keep(id)   == rated(id) /\ fresh(id) /\ QualityOk(id)
  IN SelectSeq(candidates, keep)

\* weights: Math.max(show.rating || 50, 30)
Weight(id) ==
  LET rating == IF Catalog[id].rating = 0 THEN 50 ELSE Catalog[id].rating
  IN IF rating > 30 THEN rating ELSE 30

RECURSIVE CumWeight(_, _)
CumWeight(shows, i) == IF i = 0 THEN 0 ELSE CumWeight(shows, i - 1) + Weight(shows[i])

\* totalWeight
TotalWeight(shows) == CumWeight(shows, Len(shows))

\* Mutant: the loop is skipped, the last show is returned.
weightedRandomSelectionLast(shows, random) == shows[Len(shows)]

\* weightedRandomSelection with the draw `random` (Math.random() * totalWeight):
\* the first show whose cumulative weight is >= the draw, else the last one.
weightedRandomSelection(shows, random) ==
  IF \E i \in DOMAIN shows : random <= CumWeight(shows, i)
  THEN shows[CHOOSE i \in DOMAIN shows :
               /\ random <= CumWeight(shows, i)
               /\ \A j \in 1..(i - 1) : random > CumWeight(shows, j)]
  ELSE shows[Len(shows)]

\* The draws on the grid, 0 <= random < totalWeight.
Draws(shows) ==
  {d * DrawStep : d \in 0..(CumWeight(shows, Len(shows)) \div DrawStep)}
    \cap 0..(CumWeight(shows, Len(shows)) - 1)

\* weightedRandomSelection called on `shows`, its draw coming out as `random`.
\* The function reads and writes no field, so one call per behaviour is
\* looked at.
WeightedSelect(shows, random) ==
  /\ ret.op # "weightedRandomSelection"
  /\ ret' = [op |-> "weightedRandomSelection", key |-> shows, random |-> random,
             res |-> weightedRandomSelection(shows, random),
             weights |-> [i \in DOMAIN shows |-> Weight(shows[i])]]
  /\ UNCHANGED <<cacheVars, routeVars, suggesting, now, pickerVars>>

\* The candidate lists the cache-backed selectRandomShow can gather.
CacheCandidates(config) ==
  IF config.showType = "any" \/ config.showType = None
  THEN {m \o sr : m \in RandomShows(config.country, AnySampleCount, "movie"),
                  sr \in RandomShows(config.country, AnySampleCount, "series")}
  ELSE RandomShows(config.country, TypedSampleCount, config.showType)

\* What selectRandomShow can return from a candidate list: null (NoShow) when
\* there is no candidate or none passes the filters, else a weighted draw.
SelectFrom(candidates, config, userId) ==
  LET filtered == FilterCandidates(candidates, config, userId)
  IN IF Len(candidates) = 0 \/ Len(filtered) = 0
     THEN {NoShow}
     ELSE {weightedRandomSelection(filtered, r) : r \in Draws(filtered)}

\* The runs of the cache-backed selectRandomShow: candidates gathered, show returned.
CacheSelectRuns(config, userId) ==
  UNION {{[cands |-> c, show |-> sh] : sh \in SelectFrom(c, config, userId)}
           : c \in CacheCandidates(config)}

\* Mutant: the retry keeps the rating filter.
RelaxedKeepRating(config) == [config EXCEPT !.excludeRecent = "false"]

\* The configuration of the relaxed retry.
Relaxed(config) == [config EXCEPT !.excludeRecent = "false", !.minRating = 0]

Entry(userId, picks) == [userId |-> userId, picks |-> picks]

\* cleanupOldPicks: past the size limit, keep the first entries of the map.
cleanupOldPicks(rp) ==
  IF Len(rp) > MaxPickUsers THEN SubSeq(rp, 1, KeepPickUsers) ELSE rp

\* Mutant: push instead of unshift.
AddPickLast(picks, show) ==
  LET added == picks \o <<show>>
  IN IF Len(added) > MaxRecentPicks THEN SubSeq(added, 1, MaxRecentPicks) ELSE added

\* userPicks.unshift(show), then splice(maxRecentPicks) when too long.
AddPick(picks, show) ==
  LET added == <<show>> \o picks
  IN IF Len(added) > MaxRecentPicks THEN SubSeq(added, 1, MaxRecentPicks) ELSE added

\* trackUserPick: the map it leaves.
trackUserPick(rp, userId, show) ==
  LET withUser == IF HasEntry(rp, userId)
                  THEN rp
                  ELSE Append(rp, Entry(userId, <<>>))
      tracked  == [i \in DOMAIN withUser |->
                     IF withUser[i].userId = userId
                     THEN Entry(userId, AddPick(withUser[i].picks, show))
                     ELSE withUser[i]]
  IN cleanupOldPicks(tracked)

\* History bookkeeping for a step that takes the map from rp to np, recording
\* `show` for `userId` (NoShow: nothing recorded).
Bookkeeping(rp, np, userId, show) ==
  LET log == [u \in Users |->
                IF u = userId /\ show # NoShow THEN Append(picked[u], show) ELSE picked[u]]
  IN /\ picked' = log
     /\ resetAt' = [u \in Users |->
                      IF (HasEntry(rp, u) \/ (u = userId /\ show # NoShow)) /\ ~HasEntry(np, u)
                      THEN Len(log[u])
                      ELSE resetAt[u]]

\* What a discover call ends with; `tries` lists what its selectRandomShow
\* runs returned, in order.
DiscoverEvent(userId, config, show, via, cands, tries) ==
  [op |-> "discover", key |-> userId, res |-> show, via |-> via,
   cands |-> cands, config |-> config, tries |-> tries]

\* buildResponse: this.stats.totalPicks++
buildResponse(st) == [st EXCEPT !.totalPicks = @ + 1]

\* What discover does once the strict selectRandomShow has returned `show`
\* from the candidates `cands`, for a show that is not null.
DiscoverStrictHit(config, userId, show, cands) ==
  /\ recentPicks' = IF userId # None
                    THEN trackUserPick(recentPicks, userId, show)
                    ELSE recentPicks
  /\ Bookkeeping(recentPicks, recentPicks', userId, IF userId # None THEN show ELSE NoShow)
  /\ stats' = buildResponse(stats)
  /\ ret' = DiscoverEvent(userId, config, show, "strict", cands, <<show>>)

\* Mutant: the failure is counted as a pick.
DiscoverFallbackCounts(config, userId, show, cands) ==
  /\ stats' = buildResponse(stats)
  /\ ret' = DiscoverEvent(userId, config, show,
                          IF show = NoShow THEN "failed" ELSE "fallback",
                          cands, <<NoShow, show>>)
  /\ UNCHANGED <<recentPicks, picked, resetAt>>

\* What discover does once the relaxed selectRandomShow has returned `show`.
DiscoverFallback(config, userId, show, cands) ==
  IF show = NoShow
  THEN /\ ret' = DiscoverEvent(userId, config, NoShow, "failed", cands, <<NoShow, NoShow>>)
       /\ UNCHANGED <<recentPicks, stats, picked, resetAt>>
  ELSE /\ stats' = buildResponse(stats)
       /\ ret' = DiscoverEvent(userId, config, show, "fallback", cands, <<NoShow, show>>)
       /\ UNCHANGED <<recentPicks, picked, resetAt>>

\* discover(config, userId) of the cache-backed picker. Its awaits are on
\* getRandomShows, which never suspends, so the call runs in one piece.
CacheDiscoverCall(config, userId) ==
  /\ stats.totalPicks < MaxTotalPicks
  /\ \E a \in CacheSelectRuns(config, userId) :
       IF a.show # NoShow
       THEN DiscoverStrictHit(config, userId, a.show, a.cands)
       ELSE \E b \in CacheSelectRuns(Relaxed(config), userId) :
              DiscoverFallback(config, userId, b.show, b.cands)
  /\ UNCHANGED <<cacheVars, routeVars, now, dcalls>>

\* discover(config, userId) called on the cache-backed picker by itself.
CacheDiscover(config, userId) ==
  /\ CacheDiscoverCall(config, userId)
  /\ UNCHANGED suggesting

(***************************************************************************)
(* getMultipleSuggestions of the cache-backed picker.                      *)
(***************************************************************************)
\* The ceiling on the attempts (20), scaled.
SuggestCeiling == 3

\* No getMultipleSuggestions call is under way.
Idle == [active |-> FALSE]

\* Mutant: the loop does not stop at count suggestions.
SuggestLoopCondNoCount(s) == s.i < s.attempts

\* for (...; i < attempts && suggestions.length < count; ...)
SuggestLoopCond(s) == s.i < s.attempts /\ Len(s.suggestions) < s.count

\* getMultipleSuggestions(config, count, userId) up to the first loop test.
\* `calls` counts the discover calls made.
SuggestStart(config, count, userId) ==
  /\ suggesting = Idle
  /\ suggesting' = [active |-> TRUE, config |-> config, count |-> count,
                     userId |-> userId, i |-> 0, attempts |-> Min(count * 2, SuggestCeiling),
                     suggestions |-> <<>>, calls |-> 0]
  /\ ret' = Event("getMultipleSuggestionsStart", userId, NoShow)
  /\ UNCHANGED <<cacheVars, routeVars, now, pickerVars>>

\* One round of the loop: discover is called; its response is pushed unless
\* its title is among the suggestions already, its error is logged.
SuggestDiscover ==
  /\ suggesting # Idle
  /\ SuggestLoopCond(suggesting)
  /\ CacheDiscoverCall(suggesting.config, suggesting.userId)
  /\ LET isDuplicate == \E j \in DOMAIN suggesting.suggestions :
                          suggesting.suggestions[j] = ret'.res
     IN suggesting' = [suggesting EXCEPT
                         !.i = @ + 1,
                         !.calls = @ + 1,
                         !.suggestions = IF ret'.res # NoShow /\ ~isDuplicate
                                         THEN Append(@, ret'.res)
                                         ELSE @]

\* The loop test fails: the suggestions are returned.
SuggestReturn ==
  /\ suggesting # Idle
  /\ ~SuggestLoopCond(suggesting)
  /\ ret' = [op |-> "getMultipleSuggestions", key |-> suggesting.userId,
             res |-> suggesting.suggestions, count |-> suggesting.count,
             calls |-> suggesting.calls]
  /\ suggesting' = Idle
  /\ UNCHANGED <<cacheVars, routeVars, now, pickerVars>>

\* discover(config, userId) of the direct picker, up to its first await: the
\* strict selectRandomShow has sent its request upstream.
DiscoverBegin(config, userId) ==
  /\ stats.totalPicks + BagCardinality(dcalls) < MaxTotalPicks
  /\ dcalls' = dcalls (+) SetToBag({[config |-> config, userId |-> userId,
                                      phase |-> "strict"]})
  /\ UNCHANGED <<recentPicks, stats, picked, resetAt>>

\* discover(config, userId) called on the direct picker by itself.
DiscoverStart(config, userId) ==
  /\ DiscoverBegin(config, userId)
  /\ ret' = Event("discoverStart", userId, NoShow)
  /\ UNCHANGED <<cacheVars, routeVars, suggesting, now>>

\* getPopularShows answers the call `d` with `candidates`: selectRandomShow
\* filters and draws. A strict attempt that has no show sends the relaxed
\* request and waits again; otherwise discover returns or throws.
DiscoverResponse(d, candidates) ==
  /\ BagIn(d, dcalls)
  /\ LET config == IF d.phase = "strict" THEN d.config ELSE Relaxed(d.config)
     IN \E show \in SelectFrom(candidates, config, d.userId) :
          IF d.phase = "strict"
          THEN IF show # NoShow
               THEN /\ DiscoverStrictHit(d.config, d.userId, show, candidates)
                    /\ dcalls' = dcalls (-) SetToBag({d})
               ELSE /\ dcalls' = (dcalls (-) SetToBag({d}))
                                    (+) SetToBag({[d EXCEPT !.phase = "fallback"]})
                    /\ ret' = Event("discoverRetry", d.userId, NoShow)
                    /\ UNCHANGED <<recentPicks, stats, picked, resetAt>>
          ELSE /\ DiscoverFallback(d.config, d.userId, show, candidates)
               /\ dcalls' = dcalls (-) SetToBag({d})
  /\ UNCHANGED <<cacheVars, routeVars, suggesting, now>>

\* getPopularShows throws: selectRandomShow and discover rethrow.
DiscoverError(d) ==
  /\ BagIn(d, dcalls)
  /\ dcalls' = dcalls (-) SetToBag({d})
  /\ ret' = DiscoverEvent(d.userId, d.config, NoShow, "error", <<>>,
                          IF d.phase = "strict" THEN <<>> ELSE <<NoShow>>)
  /\ UNCHANGED <<cacheVars, routeVars, suggesting, now, recentPicks, stats, picked, resetAt>>

\* clearUserHistory(userId)
ClearUserHistory(userId) ==
  /\ recentPicks' = SelectSeq(recentPicks, LAMBDA e : e.userId # userId)
  /\ Bookkeeping(recentPicks, recentPicks', None, NoShow)
  /\ ret' = Event("clearUserHistory", userId, None)
  /\ UNCHANGED <<cacheVars, routeVars, suggesting, now, stats, dcalls>>

(***************************************************************************)
(* GET /api/discover: the rate limiter and the parameter validation.       *)
(***************************************************************************)
\* RATE_LIMIT (100 requests) and RATE_WINDOW (60000 ms), scaled.
RateLimit == 2
RateWindow == 1

\* A client key that requestCounts does not hold.
NoEntry == [count |-> 0, resetTime |-> 0]

\* Mutant: the full window lets one more request in.
checkRateLimitInclusive(counts, key, t) ==
  LET clientData == counts[key]
      fresh == [count |-> 1, resetTime |-> t + RateWindow]
  IN IF clientData = NoEntry \/ t > clientData.resetTime
     THEN [ok |-> TRUE, counts |-> [counts EXCEPT ![key] = fresh]]
     ELSE IF clientData.count <= RateLimit
     THEN [ok |-> TRUE, counts |-> [counts EXCEPT ![key].count = @ + 1]]
     ELSE [ok |-> FALSE, counts |-> counts]

\* checkRateLimit(key) at time t: what it returns and what it leaves in
\* requestCounts.
checkRateLimit(counts, key, t) ==
  LET clientData == counts[key]
      fresh == [count |-> 1, resetTime |-> t + RateWindow]
  IN IF clientData = NoEntry
     THEN [ok |-> TRUE, counts |-> [counts EXCEPT ![key] = fresh]]
     ELSE IF t > clientData.resetTime
     THEN [ok |-> TRUE, counts |-> [counts EXCEPT ![key] = fresh]]
     ELSE IF clientData.count < RateLimit
     THEN [ok |-> TRUE, counts |-> [counts EXCEPT ![key].count = @ + 1]]
     ELSE [ok |-> FALSE, counts |-> counts]

\* History: the window a request of `key` at time t falls in. A window opens
\* with the first request of the client and with the first request after the
\* resetTime of the previous window.
OpensWindow(key, t) == windows[key].reset = 0 \/ t > windows[key].reset

CountRequest(key, t, accepted) ==
  LET n == IF accepted THEN 1 ELSE 0
  IN windows' = [windows EXCEPT ![key] =
                   IF OpensWindow(key, t)
                   THEN [reset |-> t + RateWindow, n |-> n]
                   ELSE [reset |-> @.reset, n |-> @.n + n]]

\* Mutant: the type is not validated.
InvalidParamsAnyType(country, showType, minRating) ==
  \/ country \notin Countries
  \/ (minRating # 0 /\ (minRating < 0 \/ minRating > 100))

\* The parameter validation of the handler. minRating is what parseInt gave,
\* with 0 for every falsy value (no parameter, NaN, 0).
InvalidParams(country, showType, minRating) ==
  \/ country \notin Countries
  \/ showType \notin {"movie", "series", "any"}
  \/ (minRating # 0 /\ (minRating < 0 \/ minRating > 100))

RouteEvent(clientIP, status, config, userId) ==
  [op |-> "GET", key |-> clientIP, res |-> status, config |-> config, userId |-> userId]

\* GET /api/discover up to its first await. country and showType are the
\* query parameters after their defaults, userIdParam the userId parameter
\* (None when absent). The status 0 stands for a request that has called
\* discover and waits for it.
Get(clientIP, country, showType, minRating, userIdParam) ==
  LET limit == checkRateLimit(requestCounts, clientIP, now)
      userId == IF userIdParam # None THEN userIdParam ELSE clientIP
      config == [country |-> country,
                 showType |-> IF showType = "any" THEN None ELSE showType,
                 excludeRecent |-> "true", minRating |-> minRating]
  IN /\ requestCounts' = limit.counts
     /\ CountRequest(clientIP, now, limit.ok)
     /\ IF ~limit.ok
        THEN /\ ret' = RouteEvent(clientIP, 429, config, userId)
             /\ UNCHANGED pickerVars
        ELSE IF InvalidParams(country, showType, minRating)
        THEN /\ ret' = RouteEvent(clientIP, 400, config, userId)
             /\ UNCHANGED pickerVars
        ELSE /\ DiscoverBegin(config, userId)
             /\ ret' = RouteEvent(clientIP, 0, config, userId)
     /\ UNCHANGED <<cacheVars, suggesting, now>>

\* The cleanup interval of the rate limiter.
RateCleanup ==
  /\ requestCounts' = [key \in DOMAIN requestCounts |->
                         IF /\ requestCounts[key] # NoEntry
                            /\ now > requestCounts[key].resetTime + RateWindow
                         THEN NoEntry
                         ELSE requestCounts[key]]
  /\ ret' = Event("rateCleanup", None, None)
  /\ UNCHANGED <<cacheVars, now, pickerVars, windows, suggesting>>

(***************************************************************************)
(* Health: NetPickCache.healthCheck and GET /api/health.                   *)
(***************************************************************************)
\* healthCheck is degraded below minPoolSize * 4 titles (scaled) and below a
\* hit rate of 0.8, in hundredths.
HealthFactor == 2
HitRateFloor == 80

\* getStats: hitRate, Math.round(hitRate * 100) / 100, in hundredths.
hitRate(md) ==
  LET totalRequests == md.hitCount + md.missCount
  IN IF totalRequests > 0
     THEN (200 * md.hitCount + totalRequests) \div (2 * totalRequests)
     ELSE 0

\* NetPickCache.healthCheck()
healthCheck(md) ==
  LET activePools == Cardinality(DOMAIN md.poolSizes)
  IN IF md.totalShows = 0 \/ activePools = 0
     THEN "unhealthy"
     ELSE IF hitRate(md) < HitRateFloor \/ md.totalShows < MinPoolSize * HealthFactor
     THEN "degraded"
     ELSE "healthy"

\* GET /api/health: overallStatus from the cache health and the status of the
\* upstream health check ("ok" or "error").
overallStatus(cacheStatus, apiStatus) ==
  LET isHealthy == cacheStatus = "healthy" /\ apiStatus = "ok"
      isDegraded == cacheStatus = "degraded" \/ apiStatus = "error"
  IN IF isHealthy THEN "healthy"
     ELSE IF isDegraded THEN "degraded"
     ELSE "unhealthy"

\* GET /api/health: httpStatus
httpStatus(status) ==
  IF status = "healthy" THEN 200
  ELSE IF status = "degraded" THEN 207
  ELSE 503

\* GET /api/health. The cache health is read before the upstream health
\* check is awaited and nothing is read after it: the response is made of
\* the cache state at the call and of the outcome of the upstream check.
HealthGet(apiStatus) ==
  /\ ret' = [op |-> "health", key |-> None,
             res |-> overallStatus(healthCheck(metadata), apiStatus),
             cache |-> healthCheck(metadata), api |-> apiStatus,
             http |-> httpStatus(overallStatus(healthCheck(metadata), apiStatus))]
  /\ UNCHANGED <<cacheVars, now, pickerVars, routeVars, suggesting>>

(***************************************************************************)
(* Initial state: after the constructors of the cache and of the picker.   *)
(***************************************************************************)
Init ==
  /\ pools = [k \in Keys |-> IF k[2] \in ShowTypes
                             THEN [shows |-> <<>>, lastUpdate |-> 0]
                             ELSE NoPool]
  /\ metadata = [totalShows |-> 0, poolSizes |-> <<>>, hitCount |-> 0, missCount |-> 0]
  /\ refreshJobs = {}
  /\ due = [k \in Keys |-> 0]
  /\ destroyed = FALSE
  /\ isRefreshing = {}
  /\ initQueue = ScheduledKeys
  /\ calls = EmptyBag
  /\ now = Epoch
  /\ recentPicks = <<>>
  /\ stats = [totalPicks |-> 0]
  /\ dcalls = EmptyBag
  /\ picked = [u \in Users |-> <<>>]
  /\ resetAt = [u \in Users |-> 0]
  /\ requestCounts = [key \in Clients |-> NoEntry]
  /\ windows = [key \in Clients |-> [reset |-> 0, n |-> 0]]
  /\ suggesting = Idle
  /\ reads = [calls |-> 0, titles |-> 0]
  /\ ret = Event("constructor", None, None)

(***************************************************************************)
(* Spec: the refresh machinery of the cache. refreshPool is called at any  *)
(* moment on the two pools the constructor creates, against an upstream    *)
(* that answers with any page over RefreshIds or with an error; clearCache *)
(* and destroy may come at any point.                                      *)
(***************************************************************************)
RefreshKeys == {ScheduledKeys[i] : i \in DOMAIN ScheduledKeys}

\* Two titles the filter keeps and one it drops.
RefreshIds == {1, 2, 4}

Next ==
  \/ \E k \in RefreshKeys : RefreshPool(k)
  \/ \E c \in BagToSet(calls), p \in PagesOver(RefreshIds) : PageArrives(c, p)
  \/ \E c \in BagToSet(calls) : PageFails(c)
  \/ ClearCache
  \/ Destroy

Spec == Init /\ [][Next]_vars

(***************************************************************************)
(* SpecRead: the two read operations against the clock. Reads come for     *)
(* every pool key at any moment; time passes; the refreshes the reads      *)
(* start are answered by the upstream with any page over ReadIds or fail.  *)
(***************************************************************************)
\* One title the filter keeps and one it drops.
ReadIds == {1, 4}

NextRead ==
  \/ \E c \in Countries, t \in ShowTypes \cup {None}, i \in 1..PoolSize : GetRandomShow(c, t, i)
  \/ \E c \in Countries, t \in ShowTypes \cup {None}, n \in 1..PoolSize : GetRandomShows(c, n, t)
  \/ \E c \in BagToSet(calls), p \in PagesOver(ReadIds) : PageArrives(c, p)
  \/ \E c \in BagToSet(calls) : PageFails(c)
  \/ Tick

SpecRead == Init /\ [][NextRead]_vars

(***************************************************************************)
(* SpecCounters: the hit and miss counters. getRandomShow is called on     *)
(* every pool key, on the expired pools of the constructor and on the      *)
(* pools the refreshes fill; clearCache and destroy are called at any      *)
(* moment.                                                                 *)
(***************************************************************************)
CounterIds == {1}

NextCounters ==
  \/ \E c \in Countries, t \in ShowTypes \cup {None}, i \in 1..PoolSize : GetRandomShow(c, t, i)
  \/ \E c \in BagToSet(calls), p \in PagesOver(CounterIds) : PageArrives(c, p)
  \/ \E c \in BagToSet(calls) : PageFails(c)
  \/ ClearCache
  \/ Destroy

SpecCounters == Init /\ [][NextCounters]_vars

(***************************************************************************)
(* SpecHealth: the health endpoint over the cache. The scheduled pools are *)
(* refreshed and read at any moment, clearCache is called, and GET         *)
(* /api/health is answered while the upstream health check succeeds or     *)
(* fails.                                                                  *)
(***************************************************************************)
HealthPages == [shows : {<<1, 2>>, <<1>>}, hasMore : {FALSE}, nextCursor : {FALSE}]

NextHealth ==
  \/ \E k \in RefreshKeys : RefreshPool(k)
  \/ \E c \in BagToSet(calls), p \in HealthPages : PageArrives(c, p)
  \/ \E c \in Countries, t \in ShowTypes : GetRandomShow(c, t, 1)
  \/ ClearCache
  \/ \E apiStatus \in {"ok", "error"} : HealthGet(apiStatus)

SpecHealth == Init /\ [][NextHealth]_vars

(***************************************************************************)
(* SpecPicker: the cache-backed picker over the cache. The two scheduled   *)
(* pools are refreshed at any moment, each refresh answered by one final   *)
(* page out of PickerPages; a user calls discover with a configuration     *)
(* out of PickerConfigs.                                                   *)
(***************************************************************************)
\* Titles 1, 2 and 5 pass the quality filter; 3 is rated 0.
PickerPages ==
  [shows : {<<1, 2>>, <<5, 3>>, <<3>>}, hasMore : {FALSE}, nextCursor : {FALSE}]

\* The route passes excludeRecent: true; None is the default, true as well.
PickerConfigs ==
  [country : Countries, showType : {"movie", "any"},
   excludeRecent : {"true"}, minRating : {0, 90}]

PickerUsers == {"u1"}

NextPicker ==
  \/ \E k \in RefreshKeys : RefreshPool(k)
  \/ \E c \in BagToSet(calls), p \in PickerPages : PageArrives(c, p)
  \/ \E cfg \in PickerConfigs, u \in PickerUsers : CacheDiscover(cfg, u)

SpecPicker == Init /\ [][NextPicker]_vars

(***************************************************************************)
(* SpecHistory: the recent-pick histories. The movie pool is filled with   *)
(* one page; three users call discover and clear their history.            *)
(***************************************************************************)
HistoryPages == [shows : {<<1, 2>>}, hasMore : {FALSE}, nextCursor : {FALSE}]

\* excludeRecent left out (true by default) or false.
HistoryConfigs ==
  [country : Countries, showType : {"movie"},
   excludeRecent : {None, "false"}, minRating : {0}]

NextHistory ==
  \/ RefreshPool(getPoolKey("us", "movie"))
  \/ \E c \in BagToSet(calls), p \in HistoryPages : PageArrives(c, p)
  \/ \E cfg \in HistoryConfigs, u \in Users : CacheDiscover(cfg, u)
  \/ \E u \in Users : ClearUserHistory(u)

SpecHistory == Init /\ [][NextHistory]_vars

(***************************************************************************)
(* SpecSuggest: getMultipleSuggestions over the cache. The movie pool is   *)
(* refreshed with one page out of SuggestPages while no call is under way  *)
(* (the awaits of the call are on values at hand, so no upstream answer    *)
(* gets in between); a user asks for 0 to MaxCount suggestions, with and   *)
(* without the exclusion of recent picks.                                  *)
(***************************************************************************)
MaxCount == 2

SuggestPages ==
  [shows : {<<1, 2>>, <<1, 3>>, <<3>>}, hasMore : {FALSE}, nextCursor : {FALSE}]

SuggestConfigs ==
  [country : Countries, showType : {"movie"},
   excludeRecent : {"true", "false"}, minRating : {0}]

NextSuggest ==
  \/ suggesting = Idle /\ RefreshPool(<<"us", "movie">>)
  \/ suggesting = Idle /\ \E c \in BagToSet(calls), p \in SuggestPages : PageArrives(c, p)
  \/ \E cfg \in SuggestConfigs, count \in 0..MaxCount : SuggestStart(cfg, count, "u1")
  \/ SuggestDiscover
  \/ SuggestReturn

SpecSuggest == Init /\ [][NextSuggest]_vars

(***************************************************************************)
(* SpecTimers: the background jobs. The initial timeouts fire in the order *)
(* of their delays, the registered intervals tick once per period as time  *)
(* passes; each page request is answered at any moment by any page over    *)
(* TimerIds or by an error.                                                *)
(***************************************************************************)
TimerIds == {1}

NextTimers ==
  \/ InitialTimeout
  \/ \E k \in Keys : IntervalTick(k)
  \/ \E c \in BagToSet(calls), p \in PagesOver(TimerIds) : PageArrives(c, p)
  \/ \E c \in BagToSet(calls) : PageFails(c)
  \/ NoTimerDue /\ Tick

SpecTimers == Init /\ [][NextTimers]_vars

(***************************************************************************)
(* SpecShutdown: the background jobs with destroy() called at any moment,  *)
(* before, between and after the initial timeouts.                         *)
(***************************************************************************)
NextShutdown ==
  \/ NextTimers
  \/ Destroy

SpecShutdown == Init /\ [][NextShutdown]_vars

(***************************************************************************)
(* SpecSchedule: the scheduled refreshes against the reads. The upstream   *)
(* answers every page request with a final page of valid titles, after any *)
(* time; the initial timeouts and the intervals fire when they are due;    *)
(* getRandomShow reads the scheduled pools at any moment.                  *)
(***************************************************************************)
SchedulePages == [shows : {<<1, 2>>, <<1>>}, hasMore : {FALSE}, nextCursor : {FALSE}]

NextSchedule ==
  \/ InitialTimeout
  \/ \E k \in Keys : IntervalTick(k)
  \/ \E c \in BagToSet(calls), p \in SchedulePages : PageArrives(c, p)
  \/ \E c \in Countries, t \in ShowTypes : GetRandomShow(c, t, 1)
  \/ NoTimerDue /\ Tick

SpecSchedule == Init /\ [][NextSchedule]_vars

(***************************************************************************)
(* SpecLoop: the loop of refreshPool on one pool. refreshPool is called at *)
(* any moment on the movie pool; each page request is answered by any page *)
(* over LoopIds (titles 1 and 2 are valid, 4 is not) or by an error;       *)
(* clearCache may come at any point.                                       *)
(***************************************************************************)
LoopIds == {1, 2, 4}

NextLoop ==
  \/ RefreshPool(getPoolKey("us", "movie"))
  \/ \E c \in BagToSet(calls), p \in PagesOver(LoopIds) : PageArrives(c, p)
  \/ \E c \in BagToSet(calls) : PageFails(c)
  \/ ClearCache

SpecLoop == Init /\ [][NextLoop]_vars

(***************************************************************************)
(* SpecSelect: weightedRandomSelection on its own, on every list of up to  *)
(* MaxCandidates different titles out of SelectIds (rated 0, 60, 90, 10)   *)
(* and every whole-numbered draw from 0 to the total weight.               *)
(***************************************************************************)
SelectIds == {3, 5, 6, 7}

SelectLists ==
  {l \in SeqsUpTo(SelectIds, MaxCandidates) :
     Len(l) >= 1 /\ \A i, j \in DOMAIN l : i # j => l[i] # l[j]}

NextSelect ==
  \E shows \in SelectLists :
     \E random \in 0..TotalWeight(shows) : WeightedSelect(shows, random)

SpecSelect == Init /\ [][NextSelect]_vars

(***************************************************************************)
(* SpecDirect: the direct picker. Two users call discover and clear their  *)
(* history; the upstream answers each request with a list out of           *)
(* DirectCandidates or with an error.                                      *)
(***************************************************************************)
DirectCandidates == {<<1, 2>>, <<6, 2>>, <<3>>, <<>>}

DirectConfigs ==
  [country : Countries, showType : {"movie"},
   excludeRecent : {"true"}, minRating : {0, 90}]

DirectUsers == {"u1", "u2"}

NextDirect ==
  \/ \E cfg \in DirectConfigs, u \in DirectUsers : DiscoverStart(cfg, u)
  \/ \E d \in BagToSet(dcalls), c \in DirectCandidates : DiscoverResponse(d, c)
  \/ \E d \in BagToSet(dcalls) : DiscoverError(d)
  \/ \E u \in DirectUsers : ClearUserHistory(u)

SpecDirect == Init /\ [][NextDirect]_vars

(***************************************************************************)
(* SpecRoute: GET /api/discover in front of the direct picker. Two clients *)
(* send requests with supported and unsupported parameters, with and       *)
(* without a userId, while time passes and the cleanup interval runs; the  *)
(* upstream answers with RouteCandidates or with an error.                 *)
(***************************************************************************)
RouteCountries == Countries \cup {"xx"}
RouteTypes == {"any", "tv"}
RouteRatings == {0, 101}
RouteUserIds == {None}
RouteCandidates == {<<1>>}

NextRoute ==
  \/ \E clientIP \in Clients, country \in RouteCountries, showType \in RouteTypes,
         minRating \in RouteRatings, userIdParam \in RouteUserIds :
       Get(clientIP, country, showType, minRating, userIdParam)
  \/ RateCleanup
  \/ Tick
  \/ \E d \in BagToSet(dcalls), c \in RouteCandidates : DiscoverResponse(d, c)
  \/ \E d \in BagToSet(dcalls) : DiscoverError(d)

SpecRoute == Init /\ [][NextRoute]_vars


(***************************************************************************)
(* Properties of the refresh machinery.                                    *)
(***************************************************************************)
\* The invocations of refreshPool suspended on an upstream request, per key.
InFlight(key) == {c \in BagToSet(calls) : c.key = key}

NumInFlight(key) == BagCardinality([c \in InFlight(key) |-> calls[c]])

\* The step is the end of a refreshPool invocation that had been suspended.
RefreshExit == ret'.op \in {"refreshDone", "refreshFailed"}

\* The step is a call of refreshPool: direct, or from a timer callback.
RefreshCall == ret'.op \in {"refreshPool", "initialTimeout", "intervalTick"}

\* C1: every pool holds at most config.poolSize titles, in every reachable state.
C1_PoolBound ==
  \A k \in Keys : pools[k] # NoPool => Len(pools[k].shows) <= PoolSize

\* A refresh that collected more than poolSize valid titles has replaced its pool.
C1_Witness ==
  /\ ret.op = "refreshDone"
  /\ Len(ret.res) > PoolSize
  /\ Len(pools[ret.key].shows) = PoolSize

\* C2: a refreshPool call for a key that has an invocation suspended on the
\* upstream returns without starting anything (no request, no marker, no pool
\* change), and at most one invocation per key is ever in flight.
C2_SingleFlight ==
  /\ [](\A k \in Keys : NumInFlight(k) <= 1)
  /\ [][RefreshCall /\ InFlight(ret'.key) # {}
          => calls' = calls /\ isRefreshing' = isRefreshing /\ pools' = pools]_vars

\* refreshPool was called for a key whose refresh was in flight, and was skipped.
C2_Witness ==
  /\ ret.op = "refreshPool"
  /\ ret.res = "skipped"
  /\ NumInFlight(ret.key) = 1

\* C3: a key is marked in flight exactly while an invocation for it is suspended
\* on the upstream, and every exit of an invocation (pool replaced, nothing
\* collected, upstream error) leaves its key unmarked.
C3_MarkerCleared ==
  /\ [](isRefreshing = {k \in Keys : InFlight(k) # {}})
  /\ [][RefreshExit => ret'.key \notin isRefreshing']_vars

\* A refresh ended on an upstream error with nothing collected; its key is unmarked.
C3_Witness ==
  /\ ret.op = "refreshFailed"
  /\ ret.res = <<>>
  /\ ret.key \notin isRefreshing

\* C4: a pool entry is only ever written by the exit of a refresh of its key,
\* whole: the new list is the first poolSize titles that refresh collected (at
\* least one) and the timestamp is the time of the write; a page that does not
\* end the refresh changes no pool.
C4_AtomicReplace ==
  [][/\ \A k \in Keys :
          pools'[k] # pools[k] /\ pools'[k] # NoPool
            => /\ RefreshExit
               /\ ret'.key = k
               /\ Len(ret'.res) >= 1
               /\ pools'[k] = [shows |-> Take(ret'.res, PoolSize), lastUpdate |-> now']
     /\ ret'.op = "page" => pools' = pools]_vars

\* A refresh that collected two different titles has replaced its
\* pool, and the pool is exactly what it collected.
C4_Witness ==
  /\ ret.op = "refreshDone"
  /\ Len(ret.res) = 2
  /\ ret.res[1] # ret.res[2]
  /\ pools[ret.key] = [shows |-> ret.res, lastUpdate |-> now]

\* C5: a refresh that collected no valid title leaves every pool (list and
\* timestamp) and the size metadata as they were, at its exit and at every
\* earlier step of it.
C5_ZeroLeavesPool ==
  [][(\/ RefreshExit /\ ret'.res = <<>>
      \/ ret'.op \in {"refreshPool", "page"})
       => /\ pools' = pools
          /\ metadata'.totalShows = metadata.totalShows
          /\ metadata'.poolSizes = metadata.poolSizes]_vars

\* A refresh of a populated pool ended with nothing collected.
C5_Witness ==
  /\ ret.op \in {"refreshDone", "refreshFailed"}
  /\ ret.res = <<>>
  /\ pools[ret.key] # NoPool
  /\ Len(pools[ret.key].shows) >= 1

(***************************************************************************)
(* Properties of the reads.                                                *)
(***************************************************************************)
\* C6, as claimed: a read of an unusable (missing, expired or empty) pool, by
\* getRandomShow or by getRandomShows, returns nothing and leaves a refresh of
\* that pool in flight.
C6_ReadTriggersRefresh ==
  [][(ret'.op \in {"getRandomShow", "getRandomShows"} /\ PoolUnusable(ret'.key))
       => /\ ret'.op = "getRandomShow" => ret'.res = NoShow
          /\ ret'.op = "getRandomShows" => ret'.res = <<>>
          /\ ret'.key \in isRefreshing'
          /\ \E c \in BagToSet(calls') : c.key = ret'.key]_vars

\* The part of C6 the code has: getRandomShow on an unusable pool.
C6_GetRandomShowOnly ==
  [][(ret'.op = "getRandomShow" /\ PoolUnusable(ret'.key))
       => /\ ret'.res = NoShow
          /\ ret'.key \in isRefreshing'
          /\ \E c \in BagToSet(calls') : c.key = ret'.key]_vars

(***************************************************************************)
(* The picker's properties.                                                *)
(***************************************************************************)
\* The titles of the pools a discover call with `config` draws from.
PoolTitles(config) ==
  LET types == IF config.showType = "any" \/ config.showType = None
               THEN ShowTypes
               ELSE {config.showType}
  IN UNION {SeqToSet(pools[getPoolKey(config.country, t)].shows) : t \in types}

\* The pool titles that pass the rating filter of `config` and the quality filter.
Eligible(config) ==
  {id \in PoolTitles(config) :
     /\ QualityOk(id)
     /\ config.minRating # 0 => Catalog[id].rating >= config.minRating}

\* This step is a discover call returning (with a title or with a failure).
DiscoverReturns == ret'.op = "discover"

\* C7 as stated: when the strict attempt of discover yields nothing and the
\* unfiltered pool of the requested country and type is not empty, discover
\* returns a title instead of failing.
C7_RelaxedRetryReturns ==
  [][(DiscoverReturns /\ ret'.via # "strict" /\ PoolTitles(ret'.config) # {})
       => ret'.res # NoShow]_vars

\* C7, amended: when the strict attempt of discover yields nothing and the
\* candidates the relaxed retry gathers hold a title that passes the quality
\* filter, discover returns such a title of those candidates.
C7_RelaxedRetryQuality ==
  [][(DiscoverReturns /\ ret'.via # "strict"
        /\ \E i \in DOMAIN ret'.cands : QualityOk(ret'.cands[i]))
       => /\ ret'.res \in SeqToSet(ret'.cands)
          /\ QualityOk(ret'.res)]_vars

\* A discover call asked for a rating no pooled title has, and returned a
\* title by the relaxed retry.
C7_Witness ==
  /\ ret.op = "discover"
  /\ ret.via = "fallback"
  /\ ret.config.minRating # 0
  /\ ret.res # NoShow
  /\ Catalog[ret.res].rating < ret.config.minRating

\* C8: after discover has shown title T to a user, that user's next discover
\* calls with excludeRecent = true do not return T while the pools hold more
\* than maxRecentPicks eligible titles; stated for the call that follows at
\* once, with no other call in between.
C8_NoImmediateRepeat ==
  [][(/\ ret.op = "discover" /\ ret.res # NoShow
      /\ DiscoverReturns /\ ret'.key = ret.key /\ ret'.res # NoShow
      /\ ExcludeRecent(ret'.config)
      /\ Cardinality(Eligible(ret'.config)) >= MaxRecentPicks + 1)
       => ret'.res # ret.res]_vars

\* C9: when discover succeeds for a request with a user id, the returned
\* title is the first entry of that user's history, from the strict attempt
\* or from the relaxed retry alike.
C9_ReturnedIsNewest ==
  [][(DiscoverReturns /\ ret'.res # NoShow /\ ret'.key # None)
       => /\ PicksIn(recentPicks', ret'.key) # <<>>
          /\ PicksIn(recentPicks', ret'.key)[1] = ret'.res]_vars

Reverse(s) == [i \in 1..Len(s) |-> s[Len(s) + 1 - i]]

\* The last n elements of s.
LastN(s, n) == SubSeq(s, Len(s) - n + 1, Len(s))

\* The newest picks of the log, newest first, at most maxRecentPicks of them.
NewestFirst(log) == Reverse(LastN(log, Min(Len(log), MaxRecentPicks)))

\* C10 as stated: every user's history holds at most maxRecentPicks titles
\* and equals the last min(k, maxRecentPicks) of the k picks recorded for the
\* user, newest first.
C10_HistoryIsLastPicks ==
  \A u \in Users :
    /\ Len(getUserRecentPicks(u)) <= MaxRecentPicks
    /\ getUserRecentPicks(u) = NewestFirst(picked[u])

\* C10, amended: every user's history holds at most maxRecentPicks titles and
\* equals the last min(k, maxRecentPicks) of the k picks recorded for the user
\* since the user's entry was last removed from the map (by clearUserHistory
\* or by cleanupOldPicks), newest first.
C10_HistorySinceRemoval ==
  \A u \in Users :
    /\ Len(getUserRecentPicks(u)) <= MaxRecentPicks
    /\ getUserRecentPicks(u) =
         NewestFirst(SubSeq(picked[u], resetAt[u] + 1, Len(picked[u])))

\* A user has had more than maxRecentPicks picks recorded, of two titles,
\* since the entry was created: the history has been truncated.
C10_Witness ==
  \E u \in Users :
    /\ resetAt[u] = 0
    /\ Len(picked[u]) > MaxRecentPicks
    /\ Cardinality(SeqToSet(picked[u])) > 1
    /\ Len(getUserRecentPicks(u)) = MaxRecentPicks

\* C11: discover runs the selection at most twice, the second time with
\* excludeRecent and the rating filter off; it ends with the 'no content
\* found' failure exactly when both runs returned nothing; a discover call
\* that fails leaves all histories and the pick counters as they were.
C11_TwoAttempts ==
  [][DiscoverReturns
       => /\ Len(ret'.tries) <= 2
          /\ (ret'.via = "failed") <=> (ret'.tries = <<NoShow, NoShow>>)
          /\ ret'.via = "fallback"
               => ret'.res \in SelectFrom(ret'.cands, Relaxed(ret'.config), ret'.key)
          /\ ret'.res = NoShow => (recentPicks' = recentPicks /\ stats' = stats)]_vars

\* A discover call has failed after two runs that returned nothing, at a
\* moment where a history and the pick counter were not empty.
C11_Witness ==
  /\ ret.op = "discover"
  /\ ret.via = "failed"
  /\ ret.tries = <<NoShow, NoShow>>
  /\ recentPicks # <<>>
  /\ stats.totalPicks > 0

(***************************************************************************)
(* Properties of the weighted selection.                                   *)
(***************************************************************************)
Max(a, b) == IF a >= b THEN a ELSE b

\* C12: for a non-empty candidate list and a draw r from 0 to the total
\* weight, weightedRandomSelection returns the first candidate whose
\* cumulative weight is >= r; the result is one of the candidates; over the
\* whole-numbered draws 1..total each candidate is returned for as many draws
\* as its weight (counted once per candidate list, in the state of draw 0).
C12_FirstMeetingDraw ==
  ret.op = "weightedRandomSelection"
    => /\ ret.res \in SeqToSet(ret.key)
       /\ \E i \in DOMAIN ret.key :
            /\ ret.key[i] = ret.res
            /\ CumWeight(ret.key, i) >= ret.random
            /\ \A j \in 1..(i - 1) : CumWeight(ret.key, j) < ret.random
       /\ ret.random = 0
            => \A i \in DOMAIN ret.key :
                 Cardinality({d \in 1..TotalWeight(ret.key) :
                                weightedRandomSelection(ret.key, d) = ret.key[i]})
                   = ret.weights[i]

\* A draw on three candidates has returned the middle one.
C12_Witness ==
  /\ ret.op = "weightedRandomSelection"
  /\ Len(ret.key) = 3
  /\ ret.res = ret.key[2]
  /\ ret.random > ret.weights[1]

C14_NoUpstreamError ==
  ret.op = "discover" => ret.via \in {"strict", "fallback", "failed"}

\* C15: when the upstream fails on a page of a refresh, the refresh stops
\* fetching for its pool, the valid titles of the earlier pages replace the
\* pool if there is at least one (else the pool stays), the call completes,
\* and the other pools, the other refreshes in flight and the timers are left
\* alone, the pool's own marker being cleared for its later refreshes.
C15_FailureKeepsPartial ==
  [][ret'.op = "refreshFailed"
       => /\ \E c \in InFlight(ret'.key) : c.shows = ret'.res
          /\ \A c \in BagToSet(calls') : c.key # ret'.key
          /\ IF Len(ret'.res) >= 1
             THEN pools'[ret'.key] =
                    [shows |-> Take(ret'.res, PoolSize), lastUpdate |-> now']
             ELSE pools'[ret'.key] = pools[ret'.key]
          /\ \A k \in Keys \ {ret'.key} : pools'[k] = pools[k]
          /\ isRefreshing' = isRefreshing \ {ret'.key}
          /\ \A c \in BagToSet(calls) :
               c.key # ret'.key => (BagIn(c, calls') /\ calls'[c] = calls[c])
          /\ refreshJobs' = refreshJobs
          /\ initQueue' = initQueue]_vars

\* A refresh failed on its second page: the title of its first page is the
\* pool now, while the refresh of another pool is still in flight.
C15_Witness ==
  /\ ret.op = "refreshFailed"
  /\ Len(ret.res) >= 1
  /\ pools[ret.key] = [shows |-> ret.res, lastUpdate |-> now]
  /\ \E c \in BagToSet(calls) : c.key # ret.key

\* The reasons the refresh loop stops after a page, for the invocation `call`.
StopsAfter(call, page) ==
  \/ Len(call.shows \o validShows(page.shows)) >= PoolSize
  \/ call.attempts + 1 >= MaxAttempts
  \/ Len(page.shows) = 0
  \/ ~page.hasMore
  \/ ~page.nextCursor

\* C16: a refreshPool call sends at most maxAttempts page requests (an
\* invocation waiting for a page has had fewer than maxAttempts answered),
\* and it ends with the page that fills the pool, hits the ceiling, is
\* empty or is reported as the last one, or with a failed request; any other
\* page makes it ask for the next one.
C16_BoundedRefresh ==
  /\ [](\A c \in BagToSet(calls) : c.attempts < MaxAttempts)
  /\ [][\A c \in BagToSet(calls), p \in PagesOver(LoopIds) :
          PageArrives(c, p)
            => IF StopsAfter(c, p)
               THEN ret'.op = "refreshDone" /\ InFlight(c.key)' = {}
               ELSE /\ ret'.op = "page"
                    /\ InFlight(c.key)' =
                         {[c EXCEPT !.shows = c.shows \o validShows(p.shows),
                                    !.attempts = c.attempts + 1]}]_vars
  /\ [][\A c \in BagToSet(calls) : PageFails(c) => InFlight(c.key)' = {}]_vars

\* An invocation that has collected a title is waiting for the last page the
\* ceiling allows it.
C16_Witness ==
  \E c \in BagToSet(calls) :
    /\ c.attempts = MaxAttempts - 1
    /\ Len(c.shows) >= 1
    /\ Len(c.shows) < PoolSize

(***************************************************************************)
(* Properties of the background jobs and of the reads of small pools.      *)
(***************************************************************************)
\* How many initial timeouts are still pending for `key`.
Queued(key) == Cardinality({i \in DOMAIN initQueue : initQueue[i] = key})

\* C17: every pool key of a supported country (movie, series and 'any') is
\* queued at startup for exactly one initial refresh, the initial refreshes
\* start in a fixed order, and once its initial refresh has started a key has
\* its recurring refresh: each key is either queued once or has its interval.
C17_EveryKeyScheduled ==
  /\ \A k \in Keys : Queued(k) + (IF k \in refreshJobs THEN 1 ELSE 0) = 1
  /\ \E n \in 0..Len(ScheduledKeys) :
       initQueue = SubSeq(ScheduledKeys, n + 1, Len(ScheduledKeys))

\* C18: a read, by getRandomShow or by getRandomShows, of a pool that is not
\* expired and holds at least one but fewer than minPoolSize titles returns
\* titles of the pool and leaves a refresh of that pool in flight.
C18_SmallPoolRefreshed ==
  [][(/\ ret'.op \in {"getRandomShow", "getRandomShows"}
      /\ ~PoolUnusable(ret'.key)
      /\ Len(pools[ret'.key].shows) < MinPoolSize)
       => /\ ret'.op = "getRandomShow" => ret'.res \in SeqToSet(pools[ret'.key].shows)
          /\ ret'.op = "getRandomShows" => ret'.res # <<>>
          /\ ret'.key \in isRefreshing'
          /\ \E c \in BagToSet(calls') : c.key = ret'.key]_vars

\* The part of C18 the code has: getRandomShow on a small pool.
C18_GetRandomShowOnly ==
  [][(/\ ret'.op = "getRandomShow"
      /\ ~PoolUnusable(ret'.key)
      /\ Len(pools[ret'.key].shows) < MinPoolSize)
       => /\ ret'.res \in SeqToSet(pools[ret'.key].shows)
          /\ ret'.key \in isRefreshing'
          /\ \E c \in BagToSet(calls') : c.key = ret'.key]_vars

(***************************************************************************)
(* Independence of the pools; pruning of the histories.                    *)
(***************************************************************************)
\* C19: refreshes of different keys are independent. refreshPool for a key
\* that is not in flight starts and sends its request whatever else is in
\* flight, leaving the other invocations as they are; the exit of a refresh
\* changes no other pool (list, timestamp), marker or invocation.
C19_IndependentKeys ==
  /\ [][(ret'.op = "refreshPool" /\ InFlight(ret'.key) = {})
          => /\ \E c \in BagToSet(calls') : c.key = ret'.key
             /\ \A k \in Keys \ {ret'.key} :
                  InFlight(k)' = InFlight(k) /\ pools'[k] = pools[k]]_vars
  /\ [][RefreshExit
          => \A k \in Keys \ {ret'.key} :
               /\ pools'[k] = pools[k]
               /\ InFlight(k)' = InFlight(k)
               /\ (k \in isRefreshing') <=> (k \in isRefreshing)]_vars

\* A refresh has replaced its pool while the refresh of another key, already
\* past its first page, is still in flight.
C19_Witness ==
  /\ ret.op = "refreshDone"
  /\ Len(ret.res) >= 1
  /\ \E c \in BagToSet(calls) : c.key # ret.key /\ c.attempts >= 1

\* C20: when recording a pick makes the history map exceed its bound and it
\* is pruned, the most recent users are kept: the user whose pick was just
\* recorded is the newest entry of the map and has that pick in front.
C20_PruningKeepsNewest ==
  [][(DiscoverReturns /\ ret'.via = "strict" /\ Len(recentPicks') < Len(recentPicks))
       => /\ recentPicks'[Len(recentPicks')].userId = ret'.key
          /\ PicksIn(recentPicks', ret'.key) # <<>>
          /\ PicksIn(recentPicks', ret'.key)[1] = ret'.res]_vars

(***************************************************************************)
(* Quality of what discover and the pools hold.                            *)
(***************************************************************************)
\* C21: every title discover returns, from the strict attempt or from the
\* relaxed retry, passes the quality filter (title, synopsis, deep link,
\* poster, rating > 0); a title of the strict attempt of a call that asked
\* for a minimum rating has at least that rating.
C21_ReturnedPassesQuality ==
  (ret.op = "discover" /\ ret.res # NoShow)
    => /\ QualityOk(ret.res)
       /\ (ret.via = "strict" /\ ret.config.minRating # 0)
            => Catalog[ret.res].rating >= ret.config.minRating

\* A strict attempt with a minimum rating has returned a title out of
\* candidates that also held a title below that rating.
C21_Witness ==
  /\ ret.op = "discover"
  /\ ret.via = "strict"
  /\ ret.config.minRating # 0
  /\ ret.res # NoShow
  /\ \E i \in DOMAIN ret.cands : Catalog[ret.cands[i]].rating < ret.config.minRating

\* C22: every title stored in a pool has a title, a synopsis, a deep link
\* and a poster image, in every reachable state.
C22_PoolsHoldValidTitles ==
  \A k \in Keys :
    pools[k] # NoPool
      => \A i \in DOMAIN pools[k].shows :
           /\ Catalog[pools[k].shows[i]].title
           /\ Catalog[pools[k].shows[i]].overview
           /\ Catalog[pools[k].shows[i]].netflixLink
           /\ Catalog[pools[k].shows[i]].poster

\* A refresh that got a valid title and then failed has stored what it kept.
C22_Witness ==
  /\ ret.op = "refreshFailed"
  /\ Len(ret.res) >= 1
  /\ pools[ret.key] # NoPool
  /\ pools[ret.key].shows = ret.res

(***************************************************************************)
(* Properties of the /api/discover handler.                                *)
(***************************************************************************)
\* C23: per client key, at most RATE_LIMIT requests are accepted between the
\* opening of a window and its resetTime; a request that finds the window
\* full is rejected with 429; a request that opens a window (the client's
\* first, or the first after the previous resetTime) is accepted and leaves
\* the count at 1 and the resetTime one window ahead.
C23_RateLimitWindow ==
  /\ [](\A key \in Clients : windows[key].n <= RateLimit)
  /\ [][ret'.op = "GET"
          => LET key == ret'.key
             IN /\ OpensWindow(key, now)
                     => /\ ret'.res # 429
                        /\ requestCounts'[key] = [count |-> 1, resetTime |-> now + RateWindow]
                /\ (~OpensWindow(key, now) /\ windows[key].n >= RateLimit)
                     => ret'.res = 429
                /\ (~OpensWindow(key, now) /\ windows[key].n < RateLimit)
                     => ret'.res # 429]_vars

\* A request was rejected in a full window that is not the client's first.
C23_Witness ==
  /\ ret.op = "GET" /\ ret.res = 429
  /\ windows[ret.key].n = RateLimit
  /\ windows[ret.key].reset > Epoch + RateWindow

\* C24: a request answered with 429 or 400 leaves the pick histories, the
\* pick statistics and the upstream calls in flight as they were; a request
\* with an unsupported country, an unknown type or a minRating outside
\* 0..100 is answered with 429 or 400; and every call the picker has received
\* has a supported country and the type movie, series or none.
C24_RejectedNeverPicks ==
  /\ [][ret'.op = "GET"
          => /\ ret'.res \in {429, 400} => UNCHANGED <<recentPicks, stats, dcalls>>
             /\ (\/ ret'.config.country \notin Countries
                 \/ ret'.config.showType \notin {"movie", "series", None}
                 \/ ret'.config.minRating < 0
                 \/ ret'.config.minRating > 100) => ret'.res \in {429, 400}]_vars
  /\ [](\A d \in BagToSet(dcalls) :
          /\ d.config.country \in Countries
          /\ d.config.showType \in {"movie", "series", None})

\* A request was rejected by the validation while a discover call of an
\* earlier request is waiting for the upstream.
C24_Witness ==
  /\ ret.op = "GET" /\ ret.res = 400
  /\ BagCardinality(dcalls) > 0

(***************************************************************************)
(* Properties of destroy().                                                *)
(***************************************************************************)
\* A refresh started by a timer: the initial timeout of a pool or a tick of
\* its interval.
TimerDriven == ret.op \in {"initialTimeout", "intervalTick"}

\* C25: from the moment destroy() has returned, no initial timeout and no
\* interval tick starts a refresh any more and no refresh job is registered,
\* whenever destroy() was called.
C25_DestroyStopsTimers ==
  /\ [](destroyed => refreshJobs = {})
  /\ [][destroyed => ~TimerDriven']_vars

(***************************************************************************)
(* Properties of getMultipleSuggestions.                                   *)
(***************************************************************************)
NoDuplicates(ids) == \A i, j \in DOMAIN ids : ids[i] = ids[j] => i = j

\* C26: a getMultipleSuggestions(config, count) call makes at most
\* min(2 * count, ceiling) discover calls and returns once it has made that
\* many; it returns at most count responses, no two with the same title; a
\* discover call that fails leaves the call running with the suggestions it
\* had.
C26_BoundedSuggestions ==
  /\ [](suggesting # Idle
          => /\ suggesting.calls <= Min(2 * suggesting.count, SuggestCeiling)
             /\ suggesting.calls = Min(2 * suggesting.count, SuggestCeiling)
                  => ~SuggestLoopCond(suggesting)
             /\ Len(suggesting.suggestions) <= suggesting.count
             /\ NoDuplicates(suggesting.suggestions))
  /\ [](ret.op = "getMultipleSuggestions"
          => /\ ret.calls <= Min(2 * ret.count, SuggestCeiling)
             /\ Len(ret.res) <= ret.count
             /\ NoDuplicates(ret.res))
  /\ [][(suggesting # Idle /\ ret'.op = "discover" /\ ret'.res = NoShow)
          => /\ suggesting' # Idle
             /\ suggesting'.suggestions = suggesting.suggestions
             /\ suggesting'.calls = suggesting.calls + 1]_vars

\* A call for two suggestions used up its attempts, the ceiling being lower
\* than twice the count, and returned a single suggestion.
C26_Witness ==
  /\ ret.op = "getMultipleSuggestions"
  /\ ret.count = 2 /\ ret.calls = SuggestCeiling /\ Len(ret.res) = 1

(***************************************************************************)
(* Properties of the cache statistics.                                     *)
(***************************************************************************)
\* C27: every getRandomShow call adds one to exactly one of hitCount and
\* missCount, to missCount exactly when it returns no title; in every state
\* hitCount + missCount is the number of getRandomShow calls since
\* construction or the last clearCache and hitCount the number of those that
\* returned a title.
C27_CountersCountReads ==
  /\ [](/\ metadata.hitCount + metadata.missCount = reads.calls
        /\ metadata.hitCount = reads.titles)
  /\ [][ret'.op = "getRandomShow"
          => \/ /\ ret'.res = NoShow
                /\ metadata'.missCount = metadata.missCount + 1
                /\ metadata'.hitCount = metadata.hitCount
             \/ /\ ret'.res # NoShow
                /\ metadata'.hitCount = metadata.hitCount + 1
                /\ metadata'.missCount = metadata.missCount]_vars

\* After a clearCache, one call has missed and one has returned a title.
C27_Witness ==
  /\ ret.op = "getRandomShow" /\ ret.res # NoShow
  /\ metadata.hitCount = 1 /\ metadata.missCount = 1
  /\ pools[<<"us", "series">>] = NoPool

\* C28: in every reachable state metadata.totalShows is the sum of the
\* lengths of the pools' title lists, and for every key that
\* metadata.poolSizes records the pool exists and has that many titles.
C28_MetadataMatchesPools ==
  /\ metadata.totalShows = SumLens(pools, Keys)
  /\ \A k \in DOMAIN metadata.poolSizes :
       /\ pools[k] # NoPool
       /\ metadata.poolSizes[k] = Len(pools[k].shows)

(***************************************************************************)
(* Properties of the health endpoint.                                      *)
(***************************************************************************)
\* How bad a status is: healthy and ok are best.
Badness(status) ==
  IF status \in {"healthy", "ok"} THEN 0
  ELSE IF status = "degraded" THEN 1
  ELSE 2

\* C29: every answer of GET /api/health is 'healthy' with 200 only for a
\* healthy cache and an upstream that is ok, is 'unhealthy' with 503 whenever
\* the cache is unhealthy, and is no better than the answer for any inputs
\* that are at least as good.
C29_HealthMonotone ==
  ret.op = "health"
    => /\ ret.res = "healthy" => (ret.cache = "healthy" /\ ret.api = "ok")
       /\ ret.http = 200 <=> ret.res = "healthy"
       /\ ret.cache = "unhealthy" => (ret.res = "unhealthy" /\ ret.http = 503)
       /\ \A c \in {"healthy", "degraded", "unhealthy"}, a \in {"ok", "error"} :
            (Badness(c) <= Badness(ret.cache) /\ Badness(a) <= Badness(ret.api))
              => Badness(overallStatus(c, a)) <= Badness(ret.res)

(***************************************************************************)
(* Properties of the refresh schedule.                                     *)
(***************************************************************************)
\* C30: with the refresh interval equal to the TTL and an upstream that
\* always returns a valid title, a getRandomShow call on a pool that holds
\* titles never finds the pool expired: it returns a title.
C30_PopulatedNeverExpired ==
  [][(/\ ret'.op = "getRandomShow"
      /\ pools[ret'.key] # NoPool
      /\ Len(pools[ret'.key].shows) > 0)
       => (~isPoolExpired(pools[ret'.key]) /\ ret'.res # NoShow)]_vars

====
